---- MODULE Spec2Model ----
(***************************************************************************)
(* Model of COOL_CRAFT_WEBAPP.py: the combination generator               *)
(* (greedy_combo, generate_candidate_combos, expand_combo_instances), the *)
(* capacity-column detection and the Streamlit session that enriches,     *)
(* shows and exports the generated or manually entered combos.            *)
(*                                                                         *)
(* Numbers.  Capacities and targets are Python floats.  They are modelled *)
(* as integers counting 1/Scale of a capacity unit, so the value 2.5 is   *)
(* 2.5 * Scale.  Counts of units (dict values) are plain integers.  With  *)
(* Scale a power of two every modelled value is a dyadic rational, which  *)
(* binary floating point represents and adds exactly, so the integer      *)
(* arithmetic below is the arithmetic the program performs.               *)
(*                                                                         *)
(* A combo (a Python dict size -> count) is a function whose DOMAIN is    *)
(* the set of keys; two combos are equal exactly when the dicts are.      *)
(***************************************************************************)
EXTENDS Integers, Sequences, FiniteSets, TLC

\* ------------------------------------------------------------------ bounds
\* resolution of the modelled reals: one capacity unit = Scale steps
Scale == 4
\* targets k/Scale for k in 1..MaxFineTarget (fractional targets, k/Scale < 1 too)
MaxFineTarget == 12
\* whole-number targets 1..MaxWholeTarget
MaxWholeTarget == 17
\* size lists in arbitrary order (repetitions allowed) up to this length
MaxAnyOrderLen == 2

\* targets entered in the session: 1.0 .. MaxSessionTarget
MaxSessionTarget == 3
\* tokens of a manual entry
MaxManualLen == 2

\* default of the max_suggestions parameter
DefaultMaxSuggestions == 12
\* number of leading sizes that get a single-size candidate
SingleSizePrefix == 6

\* sizes the inputs are drawn from: 0.5, 1.5 (when Scale = 4) and 1, 2, 3, 5, 8
SizeDomain == {2, 6} \cup {k * Scale : k \in {1, 2, 3, 5, 8}}
Targets == (1..MaxFineTarget) \cup {k * Scale : k \in 1..MaxWholeTarget}
MaxSuggestionsChoices == {1, 3, DefaultMaxSuggestions}

VARIABLES
    sizes,            \* argument `sizes` of the call under test
    target_cap,       \* argument `target_cap`
    max_suggestions,  \* argument `max_suggestions`
    pc,               \* "input", "greedy_done" or "generate_done"
    combo,            \* value returned by greedy_combo
    generated,        \* locals and return value of generate_candidate_combos
    wizard,           \* st.session_state['wizard'], NoWizard while absent
    enriched,         \* st.session_state['enriched'], NoEnriched while absent
    enriched_from,    \* history: the wizard under which `enriched` was written
    choice,           \* the "Choose option" selectbox, 1-based
    last_error        \* exception that ended the latest script run, or "none"

callVars == <<sizes, target_cap, max_suggestions, pc, combo, generated>>
sessionVars == <<wizard, enriched, enriched_from, choice, last_error>>
vars == <<callVars, sessionVars>>

\* None, for values that are strings
NoValue == "none"
\* no 'enriched' entry in st.session_state (the program never stores an empty list)
NoEnriched == <<>>

\* ------------------------------------------------------------ sequences
RECURSIVE SumSeq(_)
SumSeq(q) == IF q = <<>> THEN 0 ELSE Head(q) + SumSeq(Tail(q))

Max(a, b) == IF a >= b THEN a ELSE b
Abs(a) == IF a >= 0 THEN a ELSE -a
SetMin(S) == CHOOSE x \in S : \A y \in S : x <= y
SetMax(S) == CHOOSE x \in S : \A y \in S : x >= y
Range(q) == {q[i] : i \in 1..Len(q)}
Take(q, n) == SubSeq(q, 1, IF n < Len(q) THEN n ELSE Len(q))

\* the elements of a finite set of integers as an ascending sequence: sorted(list(set))
RECURSIVE SortedAsc(_)
SortedAsc(S) == IF S = {} THEN <<>> ELSE <<SetMin(S)>> \o SortedAsc(S \ {SetMin(S)})

\* sorted(..., reverse=True) of a set of distinct keys
RECURSIVE SortedDesc(_)
SortedDesc(S) == IF S = {} THEN <<>> ELSE <<SetMax(S)>> \o SortedDesc(S \ {SetMax(S)})

\* [x] * n
RECURSIVE Repeat(_, _)
Repeat(x, n) == IF n <= 0 THEN <<>> ELSE <<x>> \o Repeat(x, n - 1)

\* -------------------------------------------------------------- numbers
\* int(round(x)) for x = t/Scale: Python rounds halves to the even integer
PyRound(t) ==
    LET q == t \div Scale
        r == t % Scale
    IN  IF 2 * r < Scale THEN q
        ELSE IF 2 * r > Scale THEN q + 1
        ELSE IF q % 2 = 0 THEN q ELSE q + 1

\* mutant: int(a / b) + 1 in place of ceil(a / b)
FloorPlusOne(a, b) == (a \div b) + 1

\* ceil(a / b) for a >= 0, b > 0: both in the same unit, the quotient is a count
CeilDiv(a, b) == (a + b - 1) \div b

\* ---------------------------------------------------------------- combos
EmptyCombo == <<>>

\* combo[k] = v
Put(c, k, v) == [x \in (DOMAIN c) \cup {k} |-> IF x = k THEN v ELSE c[x]]

\* combo.get(k, 0)
Get(c, k) == IF k \in DOMAIN c THEN c[k] ELSE 0

expand_combo_instances(c) ==
    LET keys == SortedDesc(DOMAIN c)
        F[i \in 0..Len(keys)] ==
            IF i = 0 THEN <<>> ELSE F[i - 1] \o Repeat(keys[i], c[keys[i]])
    IN  F[Len(keys)]

\* sum(combo.values())
Units(c) ==
    LET keys == SortedDesc(DOMAIN c)
    IN  SumSeq([i \in 1..Len(keys) |-> c[keys[i]]])

\* the loop of greedy_combo over szs in the order given; the state is [rem, combo]
GreedyLoop(rem0, szs) ==
    LET F[i \in 0..Len(szs)] ==
            IF i = 0 THEN [rem |-> rem0, combo |-> EmptyCombo]
            ELSE LET p   == F[i - 1]
                     s   == szs[i]
                     cnt == p.rem \div s
                 IN  IF cnt > 0
                     THEN [rem |-> p.rem - s * cnt, combo |-> Put(p.combo, s, cnt)]
                     ELSE p
    IN  F[Len(szs)]

\* mutant: the remainder is dropped instead of absorbed
greedy_combo_no_absorb(target, szs) == GreedyLoop(PyRound(target) * Scale, szs).combo

greedy_combo(target, szs) ==
    LET rem0 == PyRound(target) * Scale
        end  == GreedyLoop(rem0, szs)
    IN  IF end.rem > 0 /\ szs # <<>>
        THEN LET smallest == SetMin(Range(szs))
             IN  Put(end.combo, smallest, Get(end.combo, smallest) + 1)
        ELSE end.combo

\* mutant: floor in place of ceil
SingleSizeComboFloor(target, s) == [x \in {s} |-> target \div s]

\* {s: ceil(target_cap / s)}
SingleSizeCombo(target, s) == [x \in {s} |-> CeilDiv(target, s)]

\* raw = [greedy_combo(...)] followed by one single-size combo per sizes[:6]
RawCandidates(target, szs) ==
    LET head == Take(szs, SingleSizePrefix)
    IN  <<greedy_combo(target, szs)>>
            \o [i \in 1..Len(head) |-> SingleSizeCombo(target, head[i])]

\* list({key(c): c for c in raw}.values()): one entry per distinct content, at the
\* position of its first occurrence
Dedup(raw) ==
    LET F[i \in 0..Len(raw)] ==
            IF i = 0 THEN <<>>
            ELSE IF \E j \in 1..(i - 1) : raw[j] = raw[i]
                 THEN F[i - 1]
                 ELSE Append(F[i - 1], raw[i])
    IN  F[Len(raw)]

\* total = sum(expand_combo_instances(c)), in 1/Scale units
TotalCap(c) == SumSeq(expand_combo_instances(c))

\* score = 0.6 * 1/(1 + |total - target| / max(1, target)) + 0.4 * 1/(1 + units)
\* as an exact fraction <<numerator, denominator>>:
\*   with m = max(1, target), d = |total - target|, u = units
\*   score = 3m/(5(m+d)) + 2/(5(1+u)) = (3m(1+u) + 2(m+d)) / (5(m+d)(1+u))
Score(c, target) ==
    LET m == Max(Scale, target)
        d == Abs(TotalCap(c) - target)
        u == Units(c)
    IN  <<3 * m * (1 + u) + 2 * (m + d), 5 * (m + d) * (1 + u)>>

ScoreLess(a, b) == a[1] * b[2] < b[1] * a[2]
ScoreEq(a, b) == a[1] * b[2] = b[1] * a[2]

\* scored.sort(key=score, reverse=True): stable, so an element goes behind every
\* earlier element whose score is not smaller
\* mutant: the sort without reverse=True
InsertByScoreAscending(sorted, c, target) ==
    LET sc == Score(c, target)
        before == {k \in 1..Len(sorted) : ~ScoreLess(sc, Score(sorted[k], target))}
        n == Cardinality(before)
    IN  SubSeq(sorted, 1, n) \o <<c>> \o SubSeq(sorted, n + 1, Len(sorted))

InsertByScore(sorted, c, target) ==
    LET sc == Score(c, target)
        before == {k \in 1..Len(sorted) : ~ScoreLess(Score(sorted[k], target), sc)}
        n == Cardinality(before)
    IN  SubSeq(sorted, 1, n) \o <<c>> \o SubSeq(sorted, n + 1, Len(sorted))

SortByScore(combos, target) ==
    LET F[i \in 0..Len(combos)] ==
            IF i = 0 THEN <<>> ELSE InsertByScore(F[i - 1], combos[i], target)
    IN  F[Len(combos)]

\* The locals raw and combos, the returned list, and the exception raised: the
\* body has no raise statement and, sizes being positive, no operation that fails.
generate_candidate_combos(target, szs, maxs) ==
    LET raw    == RawCandidates(target, szs)
        combos == Take(Dedup(raw), maxs)
    IN  [raw |-> raw, combos |-> combos, out |-> SortByScore(combos, target),
         raised |-> NoValue]

\* ------------------------------------------------------------ the catalog
\* A cell is a number (in 1/Scale units) or text; a row maps column names to cells.
Num(v) == [kind |-> "num", val |-> v]
Text(t) == [kind |-> "text", val |-> t]
NaN == [kind |-> "nan", val |-> 0]

\* pd.to_numeric(cell, errors='coerce'); the sheets hold no numeric-looking text
ToNumeric(cell) == IF cell.kind = "num" THEN cell ELSE NaN

\* Substrings of interest that normalize_name(column) contains.  "\\bhp\\b" stands
\* for a match of the regular expression \bhp\b.
NormalizedContains ==
    [c \in {"Model", "Airflow (m3/h)", "Cooling Capacity (kW)", "Power Input (kW)",
            "Capacity (HP)"} |->
        CASE c = "Cooling Capacity (kW)" -> {"cooling capacity", "capacity", "kw"}
          [] c = "Power Input (kW)"      -> {"kw"}
          [] c = "Capacity (HP)"         -> {"capacity", "hp", "\\bhp\\b"}
          [] OTHER                       -> {}]

\* One `for orig, norm in norm_map.items()` loop: the first column, in column
\* order, whose normalized name is in `matching`; NoValue if the loop ends
FirstColumn(columns, matching) ==
    LET hits == {i \in 1..Len(columns) : columns[i] \in matching}
    IN  IF hits = {} THEN NoValue ELSE columns[SetMin(hits)]

\* the first loop that returns decides
FirstOf(candidates) ==
    LET hits == {i \in 1..Len(candidates) : candidates[i] # NoValue}
    IN  IF hits = {} THEN NoValue ELSE candidates[SetMin(hits)]

find_capacity_column_by_type(columns, unit_type) ==
    LET Names == DOMAIN NormalizedContains
        Has(c, t) == t \in NormalizedContains[c]
        IndoorA == {c \in Names : Has(c, "cooling capacity") /\ Has(c, "kw")}
        IndoorB == {c \in Names : Has(c, "capacity") /\ Has(c, "kw")}
        IndoorC == {c \in Names : Has(c, "kw")}
        OutdoorA == {c \in Names : Has(c, "hp") /\ (Has(c, "capacity") \/ Has(c, "hp"))}
        OutdoorB == {c \in Names : Has(c, "horsepower") \/ Has(c, "\\bhp\\b")}
        OutdoorC == {c \in Names : Has(c, "capacity")
                                     /\ (Has(c, "hp") \/ Has(c, "horsepower"))}
    IN  IF unit_type = "Indoor"
        THEN FirstOf(<<FirstColumn(columns, IndoorA), FirstColumn(columns, IndoorB),
                       FirstColumn(columns, IndoorC)>>)
        ELSE FirstOf(<<FirstColumn(columns, OutdoorA), FirstColumn(columns, OutdoorB),
                       FirstColumn(columns, OutdoorC)>>)

\* Contents of the data files (one sheet each): representative sheets, since the
\* files themselves are inputs of the program.
Row(model, column, cell) == ("Model" :> Text(model)) @@ (column :> cell)

SheetOf(path) ==
    CASE path = "data/TOS_VRF_SINGLE.xlsx" ->
            [columns |-> <<"Model", "Capacity (HP)">>,
             rows |-> <<Row("S2", "Capacity (HP)", Num(2 * Scale)),
                        Row("S3", "Capacity (HP)", Num(3 * Scale)),
                        Row("S5", "Capacity (HP)", Num(5 * Scale)),
                        Row("S8", "Capacity (HP)", Num(8 * Scale))>>]
      [] path = "data/TOS_VRF_HI_EFM.xlsx" ->
            [columns |-> <<"Model", "Capacity (HP)">>,
             rows |-> <<Row("H0", "Capacity (HP)", Text("N/A")),
                        Row("H3a", "Capacity (HP)", Num(3 * Scale)),
                        Row("H3b", "Capacity (HP)", Num(3 * Scale)),
                        Row("H2", "Capacity (HP)", Num(2 * Scale))>>]
      [] path = "data/TOS_VRF_COMB.xlsx" ->
            [columns |-> <<"Model", "Capacity (HP)">>,
             rows |-> <<Row("C1", "Capacity (HP)", Text("TBD")),
                        Row("C2", "Capacity (HP)", Text("TBD"))>>]
      [] path = "data/4-way Cassette U series.xlsx" ->
            [columns |-> <<"Model", "Power Input (kW)", "Cooling Capacity (kW)">>,
             rows |-> <<Row("K1", "Cooling Capacity (kW)", Num(6))
                            @@ ("Power Input (kW)" :> Num(1)),
                        Row("K2", "Cooling Capacity (kW)", Num(2 * Scale))
                            @@ ("Power Input (kW)" :> Num(2))>>]
      [] path = "data/Highwall_USeries.xlsx" ->
            [columns |-> <<"Model", "Airflow (m3/h)">>,
             rows |-> <<Row("W1", "Airflow (m3/h)", Num(300 * Scale))>>]
      [] path = "data/HS Ductable TDS.xlsx" ->
            [columns |-> <<"Model", "Cooling Capacity (kW)">>,
             rows |-> <<Row("D3", "Cooling Capacity (kW)", Num(3 * Scale)),
                        Row("D1", "Cooling Capacity (kW)", Num(Scale))>>]

\* ------------------------------------------------------------- the wizard
Brands == {"Toshiba", "Carrier"}
SystemTypes == {"VRF", "Non-VRF"}
ProductTypes == {"Cassette", "High Wall", "Ductable", "Other"}
UnitTypes == {"Indoor", "Outdoor"}
CombinationModes == {"Automatic", "Manual"}
OutdoorSelections == {"Combination", "High Efficiency", "Single Unit"}

\* the selections the sidebar can hold when Proceed is pressed
WizardChoices ==
    {w \in [brand : Brands, system_type : SystemTypes, product_type : ProductTypes,
            unit_type : UnitTypes, combination_mode : CombinationModes,
            combination_type : OutdoorSelections \cup {NoValue}] :
        (w.combination_type # NoValue)
            <=> (w.unit_type = "Outdoor" /\ w.product_type = "Other")}

\* st.session_state.get('wizard') before the first Proceed
NoWizard ==
    [brand |-> NoValue, system_type |-> NoValue, product_type |-> NoValue,
     unit_type |-> NoValue, combination_mode |-> NoValue, combination_type |-> NoValue]

map_key(w) ==
    IF w.unit_type = "Outdoor" /\ w.product_type = "Other"
    THEN <<w.brand, w.system_type, "Other", "Outdoor Unit", w.combination_type>>
    ELSE <<w.brand, w.system_type, w.product_type, "Indoor Unit", NoValue>>

\* DATA_SOURCES.get(key)
DATA_SOURCES(key) ==
    CASE key = <<"Toshiba", "VRF", "Other", "Outdoor Unit", "Single Unit">>
            -> "data/TOS_VRF_SINGLE.xlsx"
      [] key = <<"Toshiba", "VRF", "Other", "Outdoor Unit", "High Efficiency">>
            -> "data/TOS_VRF_HI_EFM.xlsx"
      [] key = <<"Toshiba", "VRF", "Other", "Outdoor Unit", "Combination">>
            -> "data/TOS_VRF_COMB.xlsx"
      [] key = <<"Toshiba", "VRF", "Cassette", "Indoor Unit", NoValue>>
            -> "data/4-way Cassette U series.xlsx"
      [] key = <<"Toshiba", "VRF", "High Wall", "Indoor Unit", NoValue>>
            -> "data/Highwall_USeries.xlsx"
      [] key = <<"Toshiba", "VRF", "Ductable", "Indoor Unit", NoValue>>
            -> "data/HS Ductable TDS.xlsx"
      [] OTHER -> NoValue

\* ------------------------------------- the script's values for a wizard w
Path(w) == DATA_SOURCES(map_key(w))
CapCol(w) == find_capacity_column_by_type(SheetOf(Path(w)).columns, w.unit_type)
CapLabelType(w) == IF w.unit_type = "Outdoor" THEN "HP" ELSE "kW"

\* df after df[cap_col] = pd.to_numeric(df[cap_col], errors='coerce')
Df(w) ==
    LET rows == SheetOf(Path(w)).rows
    IN  IF CapCol(w) = NoValue THEN rows
        ELSE [i \in 1..Len(rows) |->
                [c \in DOMAIN rows[i] |->
                    IF c = CapCol(w) THEN ToNumeric(rows[i][c]) ELSE rows[i][c]]]

\* row[cap_col] as a number, NaN where the row has no such cell
CapCell(row, cap_col) == IF cap_col \in DOMAIN row THEN ToNumeric(row[cap_col]) ELSE NaN

sizes_available(w) ==
    IF CapCol(w) = NoValue THEN <<>>
    ELSE SortedAsc({CapCell(Df(w)[i], CapCol(w)).val :
                        i \in {j \in 1..Len(Df(w)) : CapCell(Df(w)[j], CapCol(w)).kind = "num"}})

\* ------------------------------------------------------- row resolution
\* indices of the rows whose capacity is a number
NumericRows(df, cap_col) == {i \in 1..Len(df) : CapCell(df[i], cap_col).kind = "num"}

\* None where a row is expected
NoRow == [k \in {"None"} |-> NaN]

\* find_nearest_row: the first row at the least |capacity - target_val|; None
\* when idxmin finds no number
find_nearest_row(df, target_val, cap_col) ==
    LET num == NumericRows(df, cap_col)
        Diff(i) == Abs(CapCell(df[i], cap_col).val - target_val)
        best == {i \in num : \A j \in num : Diff(i) <= Diff(j)}
    IN  IF num = {} THEN NoRow ELSE df[SetMin(best)]

\* chosen['_instance'] = idx + 1
WithInstance(row, n) == [k \in (DOMAIN row) \cup {"_instance"} |->
                            IF k = "_instance" THEN n ELSE row[k]]

\* the row chosen for one instance of a generated combo
ChosenRow(df, cap, cap_col) ==
    LET exact == {i \in NumericRows(df, cap_col) : CapCell(df[i], cap_col).val = cap}
    IN  IF exact # {} THEN df[SetMin(exact)] ELSE find_nearest_row(df, cap, cap_col)

\* One element of `enriched` for a generated combo.  `instances` is not a key of
\* the program's dict: it records the size each row was resolved for, in row order.
EnrichCombo(w, c) ==
    LET inst == expand_combo_instances(c)
        rows == [i \in 1..Len(inst) |-> WithInstance(ChosenRow(Df(w), inst[i], CapCol(w)), i)]
    IN  [combo |-> c, rows |-> rows, total_cap |-> SumSeq(inst), units |-> Len(rows),
         instances |-> inst]

\* the body of `if st.button("Generate Combinations")`
EnrichedAutomatic(w, target) ==
    LET combos == generate_candidate_combos(target, sizes_available(w),
                                            DefaultMaxSuggestions).out
    IN  [i \in 1..Len(combos) |-> EnrichCombo(w, combos[i])]

\* ---------------------------------------------------------- manual entry
\* man_in.split("+"): a token is a number, blank, or text that float() rejects
IsBlank(tok) == tok.kind = "text" /\ tok.val = ""
IsMalformed(tok) == tok.kind = "text" /\ tok.val # ""

\* [float(x) for x in man_in.split("+") if x.strip()], for tokens float() accepts
ParseSizes(tokens) ==
    LET F[i \in 0..Len(tokens)] ==
            IF i = 0 THEN <<>>
            ELSE IF IsBlank(tokens[i]) THEN F[i - 1] ELSE Append(F[i - 1], tokens[i].val)
    IN  F[Len(tokens)]

\* combo_dict[key] = combo_dict.get(key, 0) + 1 for each entered size
ComboDict(szs) ==
    [s \in Range(szs) |-> Cardinality({i \in 1..Len(szs) : szs[i] = s})]

\* the placeholder row of an instance no catalog row was found for
Placeholder(cap) == [k \in {"_cap_input"} |-> Num(cap)]

\* rows of a manual combo when find_nearest_row returns a row or None
ManualRows(w, szs) ==
    [i \in 1..Len(szs) |->
        LET nearest == find_nearest_row(Df(w), szs[i], CapCol(w))
        IN  WithInstance(IF nearest # NoRow THEN nearest ELSE Placeholder(szs[i]), i)]

EnrichedManual(w, szs) ==
    <<[combo |-> ComboDict(szs), rows |-> ManualRows(w, szs),
       total_cap |-> SumSeq(szs), units |-> Len(szs), instances |-> szs]>>

\* The exceptions a press of "Create Combo" can end in ("none": it completes).
\*  - float() raises ValueError on a malformed token;
\*  - without a capacity column `nearest` is {}, which is not None, and
\*    {}.to_dict() raises AttributeError;
\*  - with a capacity column that holds no number, idxmin returns NaN or raises
\*    ValueError, depending on the pandas version.
CreateComboOutcomes(w, tokens) ==
    IF \E i \in 1..Len(tokens) : IsMalformed(tokens[i]) THEN {"ValueError"}
    ELSE IF ParseSizes(tokens) = <<>> THEN {"none"}
    ELSE IF CapCol(w) = NoValue THEN {"AttributeError"}
    ELSE IF NumericRows(Df(w), CapCol(w)) = {} THEN {"none", "ValueError"}
    ELSE {"none"}

\* ------------------------------------------------------------- the session
\* the script runs past the data-source lookup
Loaded == wizard # NoWizard /\ Path(wizard) # NoValue

\* the branch `combination_mode == "Automatic" and sizes_available`
AutomaticOffered == Loaded /\ wizard.combination_mode = "Automatic"
                           /\ sizes_available(wizard) # <<>>

\* the branch `elif combination_mode == "Manual"`
ManualOffered == Loaded /\ ~AutomaticOffered /\ wizard.combination_mode = "Manual"

\* the "show & export" section is reached and renders st.session_state['enriched']
Shown == Loaded /\ last_error = "none" /\ enriched # NoEnriched

\* the option the report is built from
Chosen == enriched[choice]

\* the columns the export adds to the chosen rows
OutDf ==
    [rows |-> Chosen.rows, SelectedCombo |-> Chosen.combo,
     label |-> CapLabelType(wizard),
     ComboTotal |-> Chosen.total_cap, ComboUnits |-> Chosen.units]

\* target capacities entered in the number_input (min_value = 1.0)
SessionTargets == {t \in Targets : t >= Scale /\ t <= MaxSessionTarget * Scale}

ManualTokens == {Num(2), Num(2 * Scale), Num(3 * Scale), Text(""), Text("abc")}
ManualInputs == UNION {[1..n -> ManualTokens] : n \in 1..MaxManualLen}

Init ==
    /\ wizard = NoWizard
    /\ enriched = NoEnriched
    /\ enriched_from = NoWizard
    /\ choice = 1
    /\ last_error = "none"
    /\ sizes = <<>>
    /\ target_cap = 0
    /\ max_suggestions = DefaultMaxSuggestions
    /\ pc = "session"
    /\ combo = NoValue
    /\ generated = NoValue

\* st.sidebar.button("Proceed") with the sidebar holding w
Proceed(w) ==
    /\ wizard' = w
    /\ last_error' = "none"
    /\ UNCHANGED <<enriched, enriched_from, choice, callVars>>

\* st.button("Generate Combinations") with target in the number_input
GenerateCombinations(target) ==
    /\ AutomaticOffered
    /\ enriched' = EnrichedAutomatic(wizard, target)
    /\ enriched_from' = wizard
    /\ choice' = 1
    /\ last_error' = "none"
    /\ UNCHANGED <<wizard, callVars>>

\* st.button("Create Combo") with man_in holding the tokens joined by "+"
CreateCombo(tokens) ==
    /\ ManualOffered
    /\ ~(Len(tokens) = 1 /\ IsBlank(tokens[1]))
    /\ \E outcome \in CreateComboOutcomes(wizard, tokens) :
        /\ last_error' = outcome
        /\ IF outcome = "none"
           THEN /\ enriched' = EnrichedManual(wizard, ParseSizes(tokens))
                /\ enriched_from' = wizard
                /\ choice' = 1
           ELSE UNCHANGED <<enriched, enriched_from, choice>>
    /\ UNCHANGED <<wizard, callVars>>

\* st.selectbox("Choose option", range(1, len(enriched) + 1))
ChooseOption(i) ==
    /\ Shown
    /\ i \in 1..Len(enriched)
    /\ choice' = i
    /\ last_error' = "none"
    /\ UNCHANGED <<wizard, enriched, enriched_from, callVars>>

Next ==
    \/ \E w \in WizardChoices : Proceed(w)
    \/ \E t \in SessionTargets : GenerateCombinations(t)
    \/ \E tokens \in ManualInputs : CreateCombo(tokens)
    \/ \E i \in 1..(SingleSizePrefix + 1) : ChooseOption(i)

Spec == Init /\ [][Next]_vars

\* ------------------------------------------------- calls of the functions

\* ascending lists, as the application passes them, and short lists in any order
AscendingSizeLists == {SortedAsc(S) : S \in SUBSET SizeDomain}
AnyOrderSizeLists == UNION {[1..n -> SizeDomain] : n \in 0..MaxAnyOrderLen}
SizeLists == AscendingSizeLists \cup AnyOrderSizeLists

InitCall ==
    /\ sizes \in SizeLists
    /\ target_cap \in Targets
    /\ max_suggestions \in MaxSuggestionsChoices
    /\ pc = "input"
    /\ combo = NoValue
    /\ generated = NoValue
    /\ wizard = NoWizard
    /\ enriched = NoEnriched
    /\ enriched_from = NoWizard
    /\ choice = 1
    /\ last_error = "none"

CallGreedy ==
    /\ pc = "input"
    /\ combo' = greedy_combo(target_cap, sizes)
    /\ pc' = "greedy_done"
    /\ UNCHANGED <<sizes, target_cap, max_suggestions, generated, sessionVars>>

CallGenerate ==
    /\ pc = "input"
    /\ generated' = generate_candidate_combos(target_cap, sizes, max_suggestions)
    /\ pc' = "generate_done"
    /\ UNCHANGED <<sizes, target_cap, max_suggestions, combo, sessionVars>>

NextCall == CallGreedy \/ CallGenerate

SpecCall == InitCall /\ [][NextCall]_vars

\* =================================================================== claims
GenerateDone == pc = "generate_done"
GreedyDone == pc = "greedy_done"
Out == generated.out
Candidates == Range(generated.out)

\* the greedy candidate as the specification words it: sizes taken from largest to
\* smallest, then one unit of the smallest size if a remainder is left
GreedyLargestFirst(target, szs) ==
    LET end == GreedyLoop(PyRound(target) * Scale, SortedDesc(Range(szs)))
    IN  IF end.rem > 0 /\ szs # <<>>
        THEN LET smallest == SetMin(Range(szs))
             IN  Put(end.combo, smallest, Get(end.combo, smallest) + 1)
        ELSE end.combo

\* C1: for every non-empty list of sizes, in whatever order, the greedy candidate of
\* generate_candidate_combos is the largest-first greedy combo; for sizes 2, 3, 5, 8
\* and target 17 the combo {8: 2, 2: 1} is among the returned candidates.
C1_GreedyTakesLargestFirst ==
    (GenerateDone /\ sizes # <<>>) =>
        /\ generated.raw[1] = GreedyLargestFirst(target_cap, sizes)
        /\ (/\ Range(sizes) = {2 * Scale, 3 * Scale, 5 * Scale, 8 * Scale}
            /\ target_cap = 17 * Scale
            /\ max_suggestions = DefaultMaxSuggestions)
           => ((8 * Scale :> 2) @@ (2 * Scale :> 1)) \in Candidates

\* C2: for non-empty sizes and target > 0, generate_candidate_combos returns at
\* least one combo, every count is an integer >= 1 and every key is one of sizes.
C2_CandidatesWellFormed ==
    (GenerateDone /\ sizes # <<>>) =>
        /\ Len(Out) >= 1
        /\ \A c \in Candidates : \A k \in DOMAIN c :
              c[k] \in Nat /\ c[k] >= 1 /\ k \in Range(sizes)

C2_Witness ==
    /\ GenerateDone
    /\ Len(sizes) >= 2
    /\ Cardinality(DOMAIN generated.raw[1]) >= 2
    /\ Len(Out) >= 3

\* C3: for non-empty sizes and target > 0 (targets that round to 0 included), no
\* returned combo has zero total capacity or an entry whose count is 0.
C3_NoZeroCombo ==
    (GenerateDone /\ sizes # <<>>) =>
        \A c \in Candidates : TotalCap(c) > 0 /\ \A k \in DOMAIN c : c[k] # 0

\* C4: called with an empty sizes list, generate_candidate_combos fails with
\* InvalidInput and returns no candidate list.
C4_EmptySizesInvalidInput ==
    (GenerateDone /\ sizes = <<>>) =>
        generated.raised = "InvalidInput" /\ Out = <<>>

\* {s: target / s}, for target a multiple of s
ExactCombo(target, s) == [x \in {s} |-> target \div s]

\* generated, and removed by the cut to max_suggestions
CutByTruncation(c) == c \in Range(Dedup(generated.raw)) /\ c \notin Range(generated.combos)

ExactComboReturned(i) ==
    (target_cap % sizes[i] = 0) =>
        \/ ExactCombo(target_cap, sizes[i]) \in Candidates
        \/ CutByTruncation(ExactCombo(target_cap, sizes[i]))

FirstIndex(q, c) == SetMin({i \in 1..Len(q) : q[i] = c})

\* C6: the returned list is ordered by non-increasing score, candidates of equal
\* score keep their generation order, no two returned combos have the same content,
\* and the list has at most max_suggestions entries.
C6_RankedStableDistinctBounded ==
    GenerateDone =>
        /\ \A i, j \in 1..Len(Out) : i < j =>
              /\ ~ScoreLess(Score(Out[i], target_cap), Score(Out[j], target_cap))
              /\ ScoreEq(Score(Out[i], target_cap), Score(Out[j], target_cap))
                    => FirstIndex(generated.raw, Out[i]) < FirstIndex(generated.raw, Out[j])
              /\ Out[i] # Out[j]
        /\ Len(Out) <= max_suggestions

C6_Witness ==
    /\ GenerateDone
    /\ Len(Dedup(generated.raw)) < Len(generated.raw)
    /\ Len(Out) >= 3
    /\ Out # generated.combos
    /\ \E i, j \in 1..Len(Out) :
          i < j /\ ScoreEq(Score(Out[i], target_cap), Score(Out[j], target_cap))

\* C7: every enriched combo in the session, generated or entered manually, has one
\* row per unit, the i-th row carries _instance = i, and the instances are in
\* canonical order (sizes non-increasing with the index).
C7_RowsCanonical ==
    \A n \in 1..Len(enriched) :
        LET e == enriched[n]
        IN  /\ Len(e.rows) = Units(e.combo)
            /\ e.units = Len(e.rows)
            /\ \A i \in 1..Len(e.rows) : e.rows[i]["_instance"] = i
            /\ \A i, j \in 1..Len(e.instances) : i < j => e.instances[i] >= e.instances[j]

\* C8: when no capacity column is detected, manual entry is offered whatever the
\* combination mode, and creating a manual combo does not raise.
C8_DetectionFailureFallsBackToManual ==
    (Loaded /\ CapCol(wizard) = NoValue) =>
        ManualOffered /\ last_error # "AttributeError"

\* C9 as stated: the combo returned by greedy_combo has total capacity >= target.
C9_GreedyCoversTarget ==
    (GreedyDone /\ sizes # <<>>) => TotalCap(combo) >= target_cap

\* C9 as amended: the combo returned by greedy_combo has total capacity >=
\* round(target), the rounding being Python's (halves to the even integer).
C9_GreedyCoversRoundedTarget ==
    (GreedyDone /\ sizes # <<>>) => TotalCap(combo) >= PyRound(target_cap) * Scale

C9_Witness ==
    /\ GreedyDone
    /\ Len(sizes) >= 2
    /\ target_cap % Scale # 0
    /\ GreedyLoop(PyRound(target_cap) * Scale, sizes).rem > 0
    /\ TotalCap(combo) > PyRound(target_cap) * Scale

\* C10: the enriched list that is shown and exported was generated from the
\* currently selected wizard configuration and catalog: the data file and the unit
\* type it was generated under are the ones now selected.
C10_ShownMatchesWizard ==
    Shown => /\ Path(enriched_from) = Path(wizard)
             /\ enriched_from.unit_type = wizard.unit_type

====
